---- MODULE Spec2Model ----
(***************************************************************************)
(* Model of FSeam/MockVerifier.hpp: the MockVerifier singleton registry,   *)
(* the per-identity MockClassVerifier ledgers and their MethodCallVerifier *)
(* entries.  Operations are the public methods of the two classes; the     *)
(* caller is a single-threaded test that holds shared_ptr copies.          *)
(***************************************************************************)
EXTENDS Integers, Sequences, FiniteSets, TLC

\* ---------------------------------------------------------------- bounds
MaxVerifiers  == 2      \* MockClassVerifier objects alive at one time
MaxCalls      == 2      \* payloads recorded in the whole registry
MaxChain      == 3      \* stubs installed in the whole registry
MaxStackDepth == 3      \* nested handler frames the call stack can hold

\* ---------------------------------------------------------------- inputs
Pointers   == {"p1", "p2"}          \* object addresses used as identities
Types      == {"Foo"}               \* mocked types T of getMock<T>
ClassNames == {"Foo"}               \* names passed to getDefaultMock
Methods    == {"bar", "barz"}       \* method names; one is a prefix of the other
Handlers   == {"h1", "h2"}          \* user supplied std::function targets
RestubHandler == "hr"               \* a user handler that calls dupeMethod on its own verifier
RestubMethod  == "bar"              \* the method RestubHandler dupes
RestubWith    == "h2"               \* the handler RestubHandler installs
Payloads   == {"d1", "d2"}          \* std::any call data
Args       == {"a1", "a2"}          \* void* arguments
Times      == -2 .. (MaxCalls + 1)  \* the int argument of verify
VerifierIds == 1 .. MaxVerifiers    \* addresses of MockClassVerifier objects

VARIABLES
    inst,                  \* MockVerifier::inst != nullptr
    _mockedClass,          \* inst->_mockedClass : pointer -> verifier address
    _defaultMockedClass,   \* inst->_defaultMockedClass : class name -> verifier address
    heap,                  \* live MockClassVerifier objects, by address
    held,                  \* verifier addresses the caller keeps a shared_ptr copy of
    crashed,               \* the process died of stack exhaustion
    lastOp,                \* the last operation called, its arguments and its outputs
    hist                   \* history of the operations, for stating the properties

vars == <<inst, _mockedClass, _defaultMockedClass, heap, held, crashed, lastOp, hist>>

\* ------------------------------------------------------------ std::map
EmptyMap == [k \in {} |-> 0]

Put(f, k, v) == [x \in (DOMAIN f) \cup {k} |-> IF x = k THEN v ELSE f[x]]

Restrict(f, S) == [x \in (DOMAIN f) \cap S |-> f[x]]

Range(f) == {f[x] : x \in DOMAIN f}

\* ------------------------------------------------- std::function values
\* An empty std::function, a user handler, or the lambda built by
\* dupeMethod(..., isComposed = true), which captures the new handler and the
\* shared_ptr of the ledger entry it is stored in.
EmptyHandler == [kind |-> "empty", handler |-> "none"]

UserHandler(h) == [kind |-> "user", handler |-> h]

ComposedHandler(h) == [kind |-> "composed", handler |-> h]

\* ------------------------------------------------- MethodCallVerifier
NewMethodCallVerifier ==
    [_methodName |-> "", _called |-> 0, _handler |-> EmptyHandler, _calledData |-> <<>>]

\* ------------------------------------------------- MockClassVerifier
NewMockClassVerifier(className) ==
    [_className |-> className, _verifiers |-> EmptyMap]

\* The key built from the first three characters of the method name only.
Key_TruncatedMut(cv, methodName) ==
    cv._className \o (IF methodName = "barz" THEN "bar" ELSE methodName)

Key(cv, methodName) == cv._className \o methodName

\* methodCall putting the new payload in front of the recorded ones.
methodCall_FrontMut(cv, methodName, callingInfo) ==
    LET key  == Key(cv, methodName)
        mcv  == IF key \in DOMAIN cv._verifiers
                THEN cv._verifiers[key]
                ELSE NewMethodCallVerifier
        data == <<callingInfo>> \o mcv._calledData
        upd  == [mcv EXCEPT !._methodName = methodName,
                            !._calledData = data,
                            !._called = Len(data)]
    IN  [cv EXCEPT !._verifiers = Put(@, key, upd)]

\* methodCall storing a new MethodCallVerifier that carries the payloads but
\* not the handler of the old one.
methodCall_DropHandlerMut(cv, methodName, callingInfo) ==
    LET key  == Key(cv, methodName)
        mcv  == IF key \in DOMAIN cv._verifiers
                THEN cv._verifiers[key]
                ELSE NewMethodCallVerifier
        data == Append(mcv._calledData, callingInfo)
        upd  == [NewMethodCallVerifier EXCEPT !._methodName = methodName,
                                              !._calledData = data,
                                              !._called = Len(data)]
    IN  [cv EXCEPT !._verifiers = Put(@, key, upd)]

methodCall(cv, methodName, callingInfo) ==
    LET key  == Key(cv, methodName)
        mcv  == IF key \in DOMAIN cv._verifiers
                THEN cv._verifiers[key]
                ELSE NewMethodCallVerifier
        data == Append(mcv._calledData, callingInfo)
        upd  == [mcv EXCEPT !._methodName = methodName,
                            !._calledData = data,
                            !._called = Len(data)]
    IN  [cv EXCEPT !._verifiers = Put(@, key, upd)]

\* dupeMethod keeping the call history when it composes.
dupeMethod_KeepHistoryMut(cv, methodName, handler, isComposed) ==
    LET key  == Key(cv, methodName)
        mcv  == IF key \in DOMAIN cv._verifiers
                THEN cv._verifiers[key]
                ELSE NewMethodCallVerifier
        newHandler == IF isComposed /\ mcv._handler.kind # "empty"
                      THEN ComposedHandler(handler)
                      ELSE UserHandler(handler)
        data == IF isComposed THEN mcv._calledData ELSE <<>>
        upd  == [mcv EXCEPT !._methodName = methodName,
                            !._calledData = data,
                            !._called = Len(data),
                            !._handler = newHandler]
    IN  [cv EXCEPT !._verifiers = Put(@, key, upd)]

\* dupeMethod composing whenever a handler is installed, whatever isComposed.
dupeMethod_AlwaysComposeMut(cv, methodName, handler, isComposed) ==
    LET key  == Key(cv, methodName)
        mcv  == IF key \in DOMAIN cv._verifiers
                THEN cv._verifiers[key]
                ELSE NewMethodCallVerifier
        newHandler == IF mcv._handler.kind # "empty"
                      THEN ComposedHandler(handler)
                      ELSE UserHandler(handler)
        upd  == [mcv EXCEPT !._methodName = methodName,
                            !._calledData = <<>>,
                            !._called = Len(<<>>),
                            !._handler = newHandler]
    IN  [cv EXCEPT !._verifiers = Put(@, key, upd)]

\* dupeMethod clearing the payloads without setting _called again.
dupeMethod_StaleCountMut(cv, methodName, handler, isComposed) ==
    LET key  == Key(cv, methodName)
        mcv  == IF key \in DOMAIN cv._verifiers
                THEN cv._verifiers[key]
                ELSE NewMethodCallVerifier
        newHandler == IF isComposed /\ mcv._handler.kind # "empty"
                      THEN ComposedHandler(handler)
                      ELSE UserHandler(handler)
        upd  == [mcv EXCEPT !._methodName = methodName,
                            !._calledData = <<>>,
                            !._handler = newHandler]
    IN  [cv EXCEPT !._verifiers = Put(@, key, upd)]

dupeMethod(cv, methodName, handler, isComposed) ==
    LET key  == Key(cv, methodName)
        mcv  == IF key \in DOMAIN cv._verifiers
                THEN cv._verifiers[key]
                ELSE NewMethodCallVerifier
        newHandler == IF isComposed /\ mcv._handler.kind # "empty"
                      THEN ComposedHandler(handler)
                      ELSE UserHandler(handler)
        upd  == [mcv EXCEPT !._methodName = methodName,
                            !._calledData = <<>>,
                            !._called = Len(<<>>),
                            !._handler = newHandler]
    IN  [cv EXCEPT !._verifiers = Put(@, key, upd)]

\* Calling a std::function stored for `key` of `cv`, at stack depth `depth`.
\* The result is the sequence of user handler runs <<handler, argument>> and
\* whether the stack was exhausted.  The composed lambda first calls
\* methodCallVerifier->_handler, read from the entry when the lambda runs,
\* and then the captured handler.
NoRun == [trace |-> <<>>, overflow |-> FALSE]

RECURSIVE Call(_, _, _, _, _)
Call(cv, key, f, data, depth) ==
    IF depth > MaxStackDepth
    THEN [trace |-> <<>>, overflow |-> TRUE]
    ELSE IF f.kind = "user"
    THEN [trace |-> << <<f.handler, data>> >>, overflow |-> FALSE]
    ELSE LET first == Call(cv, key, cv._verifiers[key]._handler, data, depth + 1)
         IN  IF first.overflow
             THEN first
             ELSE [trace |-> Append(first.trace, <<f.handler, data>>),
                   overflow |-> FALSE]

\* What the body of user handler h does to the verifier it runs in: the
\* handlers of Handlers touch nothing, RestubHandler calls
\* dupeMethod(RestubMethod, RestubWith) on it.
HandlerBody(cv, h, data) ==
    IF h = RestubHandler THEN dupeMethod(cv, RestubMethod, RestubWith, FALSE) ELSE cv

\* The verifier after the call that Call describes.
RECURSIVE CallState(_, _, _, _, _)
CallState(cv, key, f, data, depth) ==
    IF depth > MaxStackDepth
    THEN cv
    ELSE IF f.kind = "user"
    THEN HandlerBody(cv, f.handler, data)
    ELSE LET inner == cv._verifiers[key]._handler
             first == Call(cv, key, inner, data, depth + 1)
             mid   == CallState(cv, key, inner, data, depth + 1)
         IN  IF first.overflow THEN mid ELSE HandlerBody(mid, f.handler, data)

\* invokeDupedMethod calling _verifiers.at(key)->_handler(arg) in place, without
\* the copy of line 51: a handler that dupes its own method then destroys the
\* std::function it is running in; the process is taken to die there.
invokeDupedMethod_InPlaceMut(cv, methodName, arg) ==
    LET key == Key(cv, methodName)
    IN  IF key \in DOMAIN cv._verifiers
        THEN LET dupedMethod == cv._verifiers[key]._handler
             IN  IF dupedMethod.kind = "empty"
                 THEN NoRun
                 ELSE IF dupedMethod = UserHandler(RestubHandler)
                         /\ key = Key(cv, RestubMethod)
                 THEN [trace |-> << <<RestubHandler, arg>> >>, overflow |-> TRUE]
                 ELSE Call(cv, key, dupedMethod, arg, 1)
        ELSE NoRun

\* The handler is copied out of the entry (line 51) and the copy is called.
invokeDupedMethod(cv, methodName, arg) ==
    LET key == Key(cv, methodName)
    IN  IF key \in DOMAIN cv._verifiers
        THEN LET dupedMethod == cv._verifiers[key]._handler
             IN  IF dupedMethod.kind # "empty"
                 THEN Call(cv, key, dupedMethod, arg, 1)
                 ELSE NoRun
        ELSE NoRun

\* The verifier after invokeDupedMethod(methodName, arg).
invokeDupedMethodState(cv, methodName, arg) ==
    LET key == Key(cv, methodName)
    IN  IF key \in DOMAIN cv._verifiers
        THEN LET dupedMethod == cv._verifiers[key]._handler
             IN  IF dupedMethod.kind # "empty"
                 THEN CallState(cv, key, dupedMethod, arg, 1)
                 ELSE cv
        ELSE cv

\* _called == times compares a std::size_t with an int: the int is converted
\* to std::size_t, so a negative `times` becomes a value of at least 2^63,
\* which no vector size reaches; the comparison is then false.
SizeEqualsInt(called, times) == times >= 0 /\ called = times

\* verify accepting at least `times` calls instead of exactly `times`.
verify_AtLeastMut(cv, methodName, times) ==
    LET key == Key(cv, methodName)
    IN  IF key \notin DOMAIN cv._verifiers
        THEN [ret |-> (times = 0), cout |-> <<>>, cerr |-> <<>>]
        ELSE LET called == cv._verifiers[key]._called
                 result == (times <= -1 /\ called > 0) \/ (times >= 0 /\ called >= times)
             IN  [ret |-> result, cout |-> <<>>, cerr |-> <<>>]

\* verify returning times <= 0 for a method without a ledger entry.
verify_MissingMut(cv, methodName, times) ==
    LET key == Key(cv, methodName)
    IN  IF key \notin DOMAIN cv._verifiers
        THEN [ret |-> (times <= 0), cout |-> <<>>, cerr |-> <<>>]
        ELSE LET called == cv._verifiers[key]._called
                 result == (times <= -1 /\ called > 0) \/ SizeEqualsInt(called, times)
             IN  [ret |-> result, cout |-> <<>>, cerr |-> <<>>]

\* verify writing its diagnostics to std::cerr.
verify_CerrMut(cv, methodName, times) ==
    LET key == Key(cv, methodName)
    IN  IF key \notin DOMAIN cv._verifiers
        THEN [ret  |-> (times = 0),
              cout |-> <<>>,
              cerr |-> IF times > 0
                       THEN << [kind |-> "never", key |-> key,
                                expected |-> times, actual |-> 0] >>
                       ELSE <<>>]
        ELSE LET called == cv._verifiers[key]._called
                 result == (times <= -1 /\ called > 0) \/ SizeEqualsInt(called, times)
             IN  [ret  |-> result,
                  cout |-> <<>>,
                  cerr |-> IF ~result
                           THEN << [kind |-> "count", key |-> key,
                                    expected |-> times, actual |-> called] >>
                           ELSE <<>>]

\* verify returns the result and the lines it writes to std::cout / std::cerr.
verify(cv, methodName, times) ==
    LET key == Key(cv, methodName)
    IN  IF key \notin DOMAIN cv._verifiers
        THEN [ret  |-> (times = 0),
              cout |-> IF times > 0
                       THEN << [kind |-> "never", key |-> key,
                                expected |-> times, actual |-> 0] >>
                       ELSE <<>>,
              cerr |-> <<>>]
        ELSE LET called == cv._verifiers[key]._called
                 result == (times <= -1 /\ called > 0) \/ SizeEqualsInt(called, times)
             IN  [ret  |-> result,
                  cout |-> IF ~result
                           THEN << [kind |-> "count", key |-> key,
                                    expected |-> times, actual |-> called] >>
                           ELSE <<>>,
                  cerr |-> <<>>]

\* ------------------------------------------------------- MockVerifier
TypeParseTraits(T) == T     \* TypeParseTraits<T>::ClassName

isMockRegistered(mockedClass, mockPtr) == mockPtr \in DOMAIN mockedClass

Registered(mc, dmc) == Range(mc) \cup Range(dmc)

\* make_shared: a new object gets an address no live object has.
FreshId == CHOOSE i \in VerifierIds \ DOMAIN heap :
               \A j \in VerifierIds \ DOMAIN heap : i <= j

\* ------------------------------------------------------------ history
NoHist == [m \in Methods |-> [calls |-> <<>>, stubs |-> <<>>]]

TotalCalls ==
    LET RECURSIVE Sum(_)
        Sum(S) == IF S = {} THEN 0
                  ELSE LET x == CHOOSE y \in S : TRUE
                       IN  Len(hist.ledger[x[1]][x[2]].calls) + Sum(S \ {x})
    IN  Sum((DOMAIN hist.ledger) \X Methods)

TotalStubs ==
    LET RECURSIVE Sum(_)
        Sum(S) == IF S = {} THEN 0
                  ELSE LET x == CHOOSE y \in S : TRUE
                       IN  Len(hist.ledger[x[1]][x[2]].stubs) + Sum(S \ {x})
    IN  Sum((DOMAIN hist.ledger) \X Methods)

\* --------------------------------------------------------- operations
NoOp == [op |-> "none", v |-> 0, id |-> "", m |-> "", h |-> "", compose |-> FALSE,
         arg |-> "", times |-> 0, pre |-> 0, hadStub |-> FALSE, ret |-> FALSE,
         trace |-> <<>>, overflow |-> FALSE, cout |-> <<>>, cerr |-> <<>>]

\* The caller is single threaded: it starts a call when the previous one has
\* returned and its outputs were read, and never after the process died.
Idle == ~crashed /\ lastOp.op = "none"

Init ==
    /\ inst = FALSE
    /\ _mockedClass = EmptyMap
    /\ _defaultMockedClass = EmptyMap
    /\ heap = EmptyMap
    /\ held = {}
    /\ crashed = FALSE
    /\ lastOp = NoOp
    /\ hist = [ledger |-> EmptyMap, got |-> {}, gotDefault |-> {}]

\* getMock looking the verifier up by the class name of T instead of by pointer.
GetMock_ByClassMut(T, mockPtr, keep) ==
    /\ Idle
    /\ LET same  == {v \in Range(_mockedClass) : heap[v]._className = TypeParseTraits(T)}
           known == same # {}
           id    == IF known THEN CHOOSE v \in same : TRUE
                    ELSE CHOOSE i \in VerifierIds \ DOMAIN heap :
                             \A j \in VerifierIds \ DOMAIN heap : i <= j
       IN  /\ known \/ Cardinality(DOMAIN heap) < MaxVerifiers
           /\ inst' = TRUE
           /\ _mockedClass' = Put(_mockedClass, mockPtr, id)
           /\ heap' = IF known THEN heap
                      ELSE Put(heap, id, NewMockClassVerifier(TypeParseTraits(T)))
           /\ held' = IF keep THEN held \cup {id} ELSE held
           /\ hist' = [hist EXCEPT !.got = @ \cup {mockPtr},
                                   !.ledger = IF known THEN @ ELSE Put(@, id, NoHist)]
           /\ lastOp' = [NoOp EXCEPT !.op = "getMock", !.v = id, !.id = mockPtr,
                                     !.ret = known]
    /\ UNCHANGED <<_defaultMockedClass, crashed>>

\* getMock calling addMock on every lookup, so that a registered pointer gets
\* a new MockClassVerifier in place of its old one.
GetMock_AlwaysAddMut(T, mockPtr, keep) ==
    /\ Idle
    /\ LET known == mockPtr \in DOMAIN _mockedClass
           id    == IF known THEN _mockedClass[mockPtr]
                    ELSE CHOOSE i \in VerifierIds \ DOMAIN heap :
                             \A j \in VerifierIds \ DOMAIN heap : i <= j
       IN  /\ known \/ Cardinality(DOMAIN heap) < MaxVerifiers
           /\ inst' = TRUE
           /\ _mockedClass' = Put(_mockedClass, mockPtr, id)
           /\ heap' = Put(heap, id, NewMockClassVerifier(TypeParseTraits(T)))
           /\ held' = IF keep THEN held \cup {id} ELSE held
           /\ hist' = [hist EXCEPT !.got = @ \cup {mockPtr},
                                   !.ledger = Put(@, id, NoHist)]
           /\ lastOp' = [NoOp EXCEPT !.op = "getMock", !.v = id, !.id = mockPtr,
                                     !.ret = known]
    /\ UNCHANGED <<_defaultMockedClass, crashed>>

\* getMock falling back to the default mock of the class of T when the pointer
\* is not registered and a default mock exists.
GetMock_FallbackMut(T, mockPtr, keep) ==
    /\ Idle
    /\ LET known    == mockPtr \in DOMAIN _mockedClass
           fallback == ~known /\ TypeParseTraits(T) \in DOMAIN _defaultMockedClass
           id       == IF known THEN _mockedClass[mockPtr]
                       ELSE IF fallback THEN _defaultMockedClass[TypeParseTraits(T)]
                       ELSE CHOOSE i \in VerifierIds \ DOMAIN heap :
                                \A j \in VerifierIds \ DOMAIN heap : i <= j
       IN  /\ known \/ fallback \/ Cardinality(DOMAIN heap) < MaxVerifiers
           /\ inst' = TRUE
           /\ _mockedClass' = Put(_mockedClass, mockPtr, id)
           /\ heap' = IF known \/ fallback THEN heap
                      ELSE Put(heap, id, NewMockClassVerifier(TypeParseTraits(T)))
           /\ held' = IF keep THEN held \cup {id} ELSE held
           /\ hist' = [hist EXCEPT !.got = @ \cup {mockPtr},
                                   !.ledger = IF known \/ fallback THEN @
                                              ELSE Put(@, id, NoHist)]
           /\ lastOp' = [NoOp EXCEPT !.op = "getMock", !.v = id, !.id = mockPtr,
                                     !.ret = known]
    /\ UNCHANGED <<_defaultMockedClass, crashed>>

\* FSeam::get<T>(mockPtr): instance() then getMock, which calls addMock when
\* the pointer is not registered.  `keep` says whether the caller stores a
\* copy of the returned shared_ptr.
GetMock(T, mockPtr, keep) ==
    /\ Idle
    /\ LET known == isMockRegistered(_mockedClass, mockPtr)
           id    == IF known THEN _mockedClass[mockPtr] ELSE FreshId
       IN  /\ known \/ Cardinality(DOMAIN heap) < MaxVerifiers
           /\ inst' = TRUE
           /\ _mockedClass' = IF known THEN _mockedClass
                              ELSE Put(_mockedClass, mockPtr, id)
           /\ heap' = IF known THEN heap
                      ELSE Put(heap, id, NewMockClassVerifier(TypeParseTraits(T)))
           /\ held' = IF keep THEN held \cup {id} ELSE held
           /\ hist' = [hist EXCEPT !.got = @ \cup {mockPtr},
                                   !.ledger = IF known THEN @ ELSE Put(@, id, NoHist)]
           /\ lastOp' = [NoOp EXCEPT !.op = "getMock", !.v = id, !.id = mockPtr,
                                     !.ret = known]
    /\ UNCHANGED <<_defaultMockedClass, crashed>>

GetDefaultMock(classMockName, keep) ==
    /\ Idle
    /\ LET known == classMockName \in DOMAIN _defaultMockedClass
           id    == IF known THEN _defaultMockedClass[classMockName] ELSE FreshId
       IN  /\ known \/ Cardinality(DOMAIN heap) < MaxVerifiers
           /\ inst' = TRUE
           /\ _defaultMockedClass' = IF known THEN _defaultMockedClass
                                     ELSE Put(_defaultMockedClass, classMockName, id)
           /\ heap' = IF known THEN heap
                      ELSE Put(heap, id, NewMockClassVerifier(classMockName))
           /\ held' = IF keep THEN held \cup {id} ELSE held
           /\ hist' = [hist EXCEPT !.gotDefault = @ \cup {classMockName},
                                   !.ledger = IF known THEN @ ELSE Put(@, id, NoHist)]
           /\ lastOp' = [NoOp EXCEPT !.op = "getDefaultMock", !.v = id,
                                     !.id = classMockName, !.ret = known]
    /\ UNCHANGED <<_mockedClass, crashed>>

\* MockVerifier::instance().isMockRegistered(mockPtr)
IsMockRegistered(mockPtr) ==
    /\ Idle
    /\ inst' = TRUE
    /\ lastOp' = [NoOp EXCEPT !.op = "isMockRegistered", !.id = mockPtr,
                              !.ret = isMockRegistered(_mockedClass, mockPtr)]
    /\ UNCHANGED <<_mockedClass, _defaultMockedClass, heap, held, crashed, hist>>

\* cleanUp clearing the default mocks only and keeping the instance mocks.
CleanUp_KeepInstancesMut ==
    /\ Idle
    /\ inst' = inst
    /\ _mockedClass' = _mockedClass
    /\ _defaultMockedClass' = EmptyMap
    /\ heap' = Restrict(heap, held \cup Range(_mockedClass))
    /\ hist' = [hist EXCEPT !.ledger = Restrict(@, held \cup Range(_mockedClass)),
                            !.got = {}, !.gotDefault = {}]
    /\ lastOp' = [NoOp EXCEPT !.op = "cleanUp"]
    /\ UNCHANGED <<held, crashed>>

\* cleanUp emptying also the verifiers the caller still holds.
CleanUp_ClearHeldMut ==
    /\ Idle
    /\ inst' = FALSE
    /\ _mockedClass' = EmptyMap
    /\ _defaultMockedClass' = EmptyMap
    /\ heap' = [v \in (DOMAIN heap) \cap held |-> NewMockClassVerifier(heap[v]._className)]
    /\ hist' = [ledger |-> [v \in (DOMAIN heap) \cap held |-> NoHist],
                got |-> {}, gotDefault |-> {}]
    /\ lastOp' = [NoOp EXCEPT !.op = "cleanUp"]
    /\ UNCHANGED <<held, crashed>>

\* MockVerifier::cleanUp(): inst.reset() destroys the registry and both maps;
\* a MockClassVerifier survives only while the caller holds a shared_ptr to it.
CleanUp ==
    /\ Idle
    /\ inst' = FALSE
    /\ _mockedClass' = EmptyMap
    /\ _defaultMockedClass' = EmptyMap
    /\ heap' = Restrict(heap, held)
    /\ hist' = [ledger |-> Restrict(hist.ledger, held), got |-> {}, gotDefault |-> {}]
    /\ lastOp' = [NoOp EXCEPT !.op = "cleanUp"]
    /\ UNCHANGED <<held, crashed>>

\* The caller drops its shared_ptr copy of verifier v.
Release(v) ==
    /\ Idle
    /\ v \in held
    /\ held' = held \ {v}
    /\ heap' = Restrict(heap, Registered(_mockedClass, _defaultMockedClass) \cup held')
    /\ hist' = [hist EXCEPT !.ledger = Restrict(@, DOMAIN heap')]
    /\ lastOp' = [NoOp EXCEPT !.op = "release", !.v = v]
    /\ UNCHANGED <<inst, _mockedClass, _defaultMockedClass, crashed>>

\* v->methodCall(methodName, callingInfo)
MethodCall(v, methodName, callingInfo) ==
    /\ Idle
    /\ v \in DOMAIN heap
    /\ TotalCalls < MaxCalls
    /\ heap' = [heap EXCEPT ![v] = methodCall(@, methodName, callingInfo)]
    /\ hist' = [hist EXCEPT !.ledger[v][methodName].calls = Append(@, callingInfo)]
    /\ lastOp' = [NoOp EXCEPT !.op = "methodCall", !.v = v, !.m = methodName,
                              !.arg = callingInfo,
                              !.pre = Len(hist.ledger[v][methodName].calls),
                              !.hadStub = (hist.ledger[v][methodName].stubs # <<>>)]
    /\ UNCHANGED <<inst, _mockedClass, _defaultMockedClass, held, crashed>>

\* v->dupeMethod(methodName, handler, isComposed)
DupeMethod(v, methodName, handler, isComposed) ==
    /\ Idle
    /\ v \in DOMAIN heap
    /\ LET old == hist.ledger[v][methodName].stubs
           new == IF isComposed /\ old # <<>> THEN Append(old, handler) ELSE <<handler>>
       IN  /\ TotalStubs - Len(old) + Len(new) <= MaxChain
           /\ hist' = [hist EXCEPT !.ledger[v][methodName] =
                                       [calls |-> <<>>, stubs |-> new]]
    /\ heap' = [heap EXCEPT ![v] = dupeMethod(@, methodName, handler, isComposed)]
    /\ lastOp' = [NoOp EXCEPT !.op = "dupeMethod", !.v = v, !.m = methodName,
                              !.h = handler, !.compose = isComposed,
                              !.pre = Len(hist.ledger[v][methodName].calls),
                              !.hadStub = (hist.ledger[v][methodName].stubs # <<>>)]
    /\ UNCHANGED <<inst, _mockedClass, _defaultMockedClass, held, crashed>>

\* v->invokeDupedMethod(methodName, arg)
InvokeDupedMethod(v, methodName, arg) ==
    /\ Idle
    /\ v \in DOMAIN heap
    /\ LET run == invokeDupedMethod(heap[v], methodName, arg)
           restubbed == \E i \in 1 .. Len(run.trace) : run.trace[i][1] = RestubHandler
       IN  /\ crashed' = run.overflow
           /\ heap' = [heap EXCEPT ![v] = invokeDupedMethodState(@, methodName, arg)]
           /\ hist' = IF restubbed
                      THEN [hist EXCEPT !.ledger[v][RestubMethod] =
                                            [calls |-> <<>>, stubs |-> <<RestubWith>>]]
                      ELSE hist
           /\ lastOp' = [NoOp EXCEPT !.op = "invokeDupedMethod", !.v = v,
                                     !.m = methodName, !.arg = arg,
                                     !.pre = Len(hist.ledger[v][methodName].calls),
                                     !.hadStub = (hist.ledger[v][methodName].stubs # <<>>),
                                     !.trace = run.trace, !.overflow = run.overflow]
    /\ UNCHANGED <<inst, _mockedClass, _defaultMockedClass, held>>

\* verify looking the entry up with _verifiers[key], which inserts an empty
\* entry for a key that is not in the map.
Verify_InsertsEntryMut(v, methodName, times) ==
    /\ Idle
    /\ v \in DOMAIN heap
    /\ LET r   == verify(heap[v], methodName, times)
           key == Key(heap[v], methodName)
       IN  /\ lastOp' = [NoOp EXCEPT !.op = "verify", !.v = v, !.m = methodName,
                                     !.times = times, !.ret = r.ret,
                                     !.pre = Len(hist.ledger[v][methodName].calls),
                                     !.cout = r.cout, !.cerr = r.cerr]
           /\ heap' = IF key \in DOMAIN heap[v]._verifiers THEN heap
                      ELSE [heap EXCEPT ![v]._verifiers = Put(@, key, NewMethodCallVerifier)]
    /\ UNCHANGED <<inst, _mockedClass, _defaultMockedClass, held, crashed, hist>>

\* v->verify(methodName, times)
Verify(v, methodName, times) ==
    /\ Idle
    /\ v \in DOMAIN heap
    /\ LET r == verify(heap[v], methodName, times)
       IN  lastOp' = [NoOp EXCEPT !.op = "verify", !.v = v, !.m = methodName,
                                  !.times = times, !.ret = r.ret,
                                  !.pre = Len(hist.ledger[v][methodName].calls),
                                  !.cout = r.cout, !.cerr = r.cerr]
    /\ UNCHANGED <<inst, _mockedClass, _defaultMockedClass, heap, held, crashed, hist>>

\* The call returns and the caller reads its outputs.
Return ==
    /\ ~crashed
    /\ lastOp.op # "none"
    /\ lastOp' = NoOp
    /\ UNCHANGED <<inst, _mockedClass, _defaultMockedClass, heap, held, crashed, hist>>

Next ==
    \/ Return
    \/ \E T \in Types, p \in Pointers, keep \in BOOLEAN : GetMock(T, p, keep)
    \/ \E c \in ClassNames, keep \in BOOLEAN : GetDefaultMock(c, keep)
    \/ \E p \in Pointers : IsMockRegistered(p)
    \/ CleanUp
    \/ \E v \in VerifierIds : Release(v)
    \/ \E v \in VerifierIds, m \in Methods, d \in Payloads : MethodCall(v, m, d)
    \/ \E v \in VerifierIds, m \in Methods, h \in Handlers \cup {RestubHandler},
           c \in BOOLEAN : DupeMethod(v, m, h, c)
    \/ \E v \in VerifierIds, m \in Methods, a \in Args : InvokeDupedMethod(v, m, a)
    \/ \E v \in VerifierIds, m \in Methods, t \in Times : Verify(v, m, t)

Spec == Init /\ [][Next]_vars

\* One mocked identity, every ledger operation with every input.
NextLedger ==
    \/ Return
    \/ GetMock("Foo", "p1", FALSE)
    \/ \E m \in Methods, d \in Payloads : MethodCall(1, m, d)
    \/ \E m \in Methods, h \in Handlers, c \in BOOLEAN : DupeMethod(1, m, h, c)
    \/ \E m \in Methods, a \in Args : InvokeDupedMethod(1, m, a)
    \/ \E m \in Methods, t \in Times : Verify(1, m, t)

SpecLedger == Init /\ [][NextLedger]_vars

\* The same with cleanUp(): the verifier is destroyed and looked up again.
NextLedgerCleanUp ==
    \/ Return
    \/ GetMock("Foo", "p1", FALSE)
    \/ CleanUp
    \/ \E m \in Methods, d \in Payloads : MethodCall(1, m, d)
    \/ \E m \in Methods, h \in Handlers, c \in BOOLEAN : DupeMethod(1, m, h, c)
    \/ \E m \in Methods, a \in Args : InvokeDupedMethod(1, m, a)
    \/ \E m \in Methods, t \in Times : Verify(1, m, t)

SpecLedgerCleanUp == Init /\ [][NextLedgerCleanUp]_vars

\* One mocked identity, with a handler that dupes a method while it runs.
NextRestub ==
    \/ Return
    \/ GetMock("Foo", "p1", FALSE)
    \/ \E m \in Methods : MethodCall(1, m, "d1")
    \/ \E m \in Methods, h \in Handlers \cup {RestubHandler}, c \in BOOLEAN :
           DupeMethod(1, m, h, c)
    \/ \E m \in Methods, a \in Args : InvokeDupedMethod(1, m, a)
    \/ \E m \in Methods : Verify(1, m, 0)

SpecRestub == Init /\ [][NextRestub]_vars

\* Every registry operation with every input, the ledger operations on one
\* method with one payload, one handler and one argument.
NextRegistry ==
    \/ Return
    \/ \E T \in Types, p \in Pointers, keep \in BOOLEAN : GetMock(T, p, keep)
    \/ \E c \in ClassNames, keep \in BOOLEAN : GetDefaultMock(c, keep)
    \/ \E p \in Pointers : IsMockRegistered(p)
    \/ CleanUp
    \/ \E v \in VerifierIds : Release(v)
    \/ \E v \in VerifierIds : MethodCall(v, "bar", "d1")
    \/ \E v \in VerifierIds : DupeMethod(v, "bar", "h1", FALSE)
    \/ \E v \in VerifierIds : InvokeDupedMethod(v, "bar", "a1")
    \/ \E v \in VerifierIds, t \in {0, 1} : Verify(v, "bar", t)

SpecRegistry == Init /\ [][NextRegistry]_vars

\* ------------------------------------------------------------ properties
\* What the history says about method m of verifier v.
Recorded(v, m)  == hist.ledger[v][m].calls     \* payloads of the methodCall(m, ..) since the last reset
Installed(v, m) == hist.ledger[v][m].stubs     \* handlers given to dupeMethod(m, ..), composed ones appended

HasEntry(v, m) == Key(heap[v], m) \in DOMAIN heap[v]._verifiers

Entry(v, m) == heap[v]._verifiers[Key(heap[v], m)]

LedgerOps == {"methodCall", "dupeMethod", "invokeDupedMethod", "verify"}

\* One run of each handler of `stubs`, in order, each with `arg`.
RunsInOrder(stubs, arg) == [i \in 1 .. Len(stubs) |-> <<stubs[i], arg>>]

\* C1: verify(m, N) with N >= 0 returns true iff exactly N methodCall(m, ..)
\* were performed on the identity since the later of its last dupeMethod(m, ..)
\* and the creation of its verifier; without a ledger entry verify(m, 0) is
\* true and verify(m, N) with N > 0 is false.
C1_VerifyExactCount ==
    /\ \A v \in DOMAIN heap, m \in Methods, N \in 0 .. (MaxCalls + 1) :
           /\ verify(heap[v], m, N).ret <=> (Len(Recorded(v, m)) = N)
           /\ ~HasEntry(v, m) => (verify(heap[v], m, N).ret <=> (N = 0))
    /\ (lastOp.op = "verify" /\ lastOp.times >= 0)
           => (lastOp.ret <=> (Len(Recorded(lastOp.v, lastOp.m)) = lastOp.times))

C1_Witness ==
    /\ lastOp.op = "verify" /\ lastOp.times = 1 /\ lastOp.ret
    /\ Installed(lastOp.v, lastOp.m) # <<>>
    /\ \E m \in Methods : ~HasEntry(lastOp.v, m)

\* C2: verify(m, -1) returns true iff the recorded call count of m is greater
\* than 0; it is false without a ledger entry and with an entry of count 0.
C2_VerifyDefaultAtLeastOnce ==
    /\ \A v \in DOMAIN heap, m \in Methods :
           /\ verify(heap[v], m, -1).ret <=> (Len(Recorded(v, m)) > 0)
           /\ ~HasEntry(v, m) => ~verify(heap[v], m, -1).ret
           /\ (HasEntry(v, m) /\ Entry(v, m)._called = 0) => ~verify(heap[v], m, -1).ret
    /\ (lastOp.op = "verify" /\ lastOp.times = -1)
           => (lastOp.ret <=> (Len(Recorded(lastOp.v, lastOp.m)) > 0))

C2_Witness ==
    /\ lastOp.op = "verify" /\ lastOp.times = -1 /\ ~lastOp.ret
    /\ HasEntry(lastOp.v, lastOp.m) /\ Entry(lastOp.v, lastOp.m)._called = 0
    /\ \E m \in Methods : ~HasEntry(lastOp.v, m)

\* C3: after dupeMethod(m, S2, compose = true) on a method that has a stub S1,
\* every invokeDupedMethod(m, arg) runs S1 once, then S2 once, both with arg,
\* and returns; the same for a chain of three.
C3_ComposeRunsInOrder ==
    (lastOp.op = "invokeDupedMethod" /\ Len(Installed(lastOp.v, lastOp.m)) >= 2)
        => /\ ~lastOp.overflow
           /\ lastOp.trace = RunsInOrder(Installed(lastOp.v, lastOp.m), lastOp.arg)

\* C4: every dupeMethod(m, h, compose) clears the recorded payloads of m and
\* sets its call count to 0, and verify(m, 0) right after it is true.
C4_DupeResetsHistory ==
    lastOp.op = "dupeMethod"
        => /\ HasEntry(lastOp.v, lastOp.m)
           /\ Entry(lastOp.v, lastOp.m)._called = 0
           /\ Entry(lastOp.v, lastOp.m)._calledData = <<>>
           /\ verify(heap[lastOp.v], lastOp.m, 0).ret

C4_Witness ==
    /\ lastOp.op = "dupeMethod" /\ lastOp.compose /\ lastOp.hadStub
    /\ lastOp.pre = MaxCalls

\* C5: invokeDupedMethod(m, arg) runs the stub installed for m exactly once
\* with arg, or nothing when there is none, returns, and records no call: no
\* ledger entry is created and no count or payload list changes.
C5_InvokeRunsStubOnce ==
    [][lastOp'.op = "invokeDupedMethod"
         => /\ ~lastOp'.overflow
            /\ lastOp'.trace = RunsInOrder(Installed(lastOp'.v, lastOp'.m), lastOp'.arg)
            /\ heap' = heap]_vars

\* C6: dupeMethod(m, h, compose = false), and dupeMethod(m, h, compose = true)
\* on a method without a stub, leave h as the only stub: invokeDupedMethod(m,
\* arg) then runs h exactly once and no stub installed before.
C6_DupeReplacesStub ==
    /\ (lastOp.op = "dupeMethod" /\ (~lastOp.compose \/ ~lastOp.hadStub))
           => \A a \in Args :
                  invokeDupedMethod(heap[lastOp.v], lastOp.m, a)
                      = [trace |-> << <<lastOp.h, a>> >>, overflow |-> FALSE]
    /\ (lastOp.op = "invokeDupedMethod" /\ Len(Installed(lastOp.v, lastOp.m)) = 1)
           => /\ ~lastOp.overflow
              /\ lastOp.trace = << <<Installed(lastOp.v, lastOp.m)[1], lastOp.arg>> >>

C6_Witness ==
    /\ lastOp.op = "dupeMethod" /\ ~lastOp.compose /\ lastOp.hadStub
    /\ Entry(lastOp.v, lastOp.m)._handler = UserHandler(lastOp.h)

\* C7: methodCall(m, payload) gets or creates the entry of m, raises its call
\* count by exactly 1 and appends payload; the payload sequence of m is always
\* the payloads of the methodCall(m, ..) since the last reset, in call order.
C7_MethodCallRecordsOnce ==
    /\ \A v \in DOMAIN heap, m \in Methods :
           IF HasEntry(v, m)
           THEN /\ Entry(v, m)._calledData = Recorded(v, m)
                /\ Entry(v, m)._called = Len(Recorded(v, m))
           ELSE Recorded(v, m) = <<>>
    /\ lastOp.op = "methodCall"
           => /\ HasEntry(lastOp.v, lastOp.m)
              /\ Entry(lastOp.v, lastOp.m)._called = lastOp.pre + 1
              /\ Len(Entry(lastOp.v, lastOp.m)._calledData) = lastOp.pre + 1
              /\ Entry(lastOp.v, lastOp.m)._calledData[lastOp.pre + 1] = lastOp.arg

C7_Witness ==
    /\ lastOp.op = "methodCall" /\ lastOp.pre = 1
    /\ Entry(lastOp.v, lastOp.m)._calledData = <<"d1", "d2">>

\* C8: after cleanUp() no identity is registered, and a verifier obtained
\* again with getMock or getDefaultMock is new: it has no recorded call and no
\* stub, so verify(m, 0) is true and invokeDupedMethod(m) runs nothing.
C8_CleanUpGivesFreshRegistry ==
    /\ lastOp.op = "cleanUp"
           => /\ \A p \in Pointers : ~isMockRegistered(_mockedClass, p)
              /\ DOMAIN _defaultMockedClass = {}
    /\ (lastOp.op = "isMockRegistered" /\ lastOp.id \notin hist.got) => ~lastOp.ret
    /\ (lastOp.op \in {"getMock", "getDefaultMock"} /\ ~lastOp.ret)
           => /\ heap[lastOp.v]._verifiers = EmptyMap
              /\ \A m \in Methods, a \in Args :
                     /\ verify(heap[lastOp.v], m, 0).ret
                     /\ invokeDupedMethod(heap[lastOp.v], m, a) = NoRun

\* getMock(p) made a new verifier while the caller still holds a verifier
\* that a cleanUp() removed from the registry with a call and a stub in it.
C8_Witness ==
    /\ lastOp.op = "getMock" /\ ~lastOp.ret
    /\ \E w \in held \ Registered(_mockedClass, _defaultMockedClass) :
           /\ HasEntry(w, "bar")
           /\ Entry(w, "bar")._called > 0
           /\ Entry(w, "bar")._handler # EmptyHandler

\* C9: two distinct identities A and B have independent ledgers: methodCall,
\* dupeMethod and invokeDupedMethod on the verifier of A change nothing of the
\* verifier of B.
C9_IndependentLedgers ==
    [][lastOp'.op \in {"methodCall", "dupeMethod", "invokeDupedMethod"}
         => \A A \in DOMAIN _mockedClass, B \in DOMAIN _mockedClass :
                (A # B /\ _mockedClass[A] = lastOp'.v)
                    => /\ B \in DOMAIN _mockedClass'
                       /\ _mockedClass'[B] = _mockedClass[B]
                       /\ heap'[_mockedClass[B]] = heap[_mockedClass[B]]]_vars

C9_Witness ==
    /\ lastOp.op = "methodCall"
    /\ \E A \in DOMAIN _mockedClass, B \in DOMAIN _mockedClass :
           /\ A # B
           /\ _mockedClass[A] = lastOp.v
           /\ Entry(lastOp.v, "bar")._called = 1
           /\ HasEntry(_mockedClass[B], "bar")
           /\ Entry(_mockedClass[B], "bar")._called = 0
           /\ Entry(_mockedClass[B], "bar")._handler # EmptyHandler

\* The parts of C10: isMockRegistered(p) is true iff getMock(p) was called
\* since the last cleanUp; the first lookup of a key creates an empty verifier
\* and every later lookup of the key returns that verifier with its calls and
\* stubs kept; isMockRegistered registers nothing.
C10_Registered == \A p \in Pointers : isMockRegistered(_mockedClass, p) <=> p \in hist.got

C10_Step ==
    /\ lastOp'.op = "isMockRegistered"
           => /\ lastOp'.ret = (lastOp'.id \in hist.got)
              /\ UNCHANGED <<_mockedClass, _defaultMockedClass, heap>>
    /\ (lastOp'.op = "getMock" /\ lastOp'.id \notin hist.got)
           => /\ lastOp'.v \notin DOMAIN heap
              /\ heap'[lastOp'.v]._verifiers = EmptyMap
              /\ _mockedClass'[lastOp'.id] = lastOp'.v
    /\ (lastOp'.op = "getMock" /\ lastOp'.id \in hist.got)
           => /\ lastOp'.v = _mockedClass[lastOp'.id]
              /\ UNCHANGED <<_mockedClass, _defaultMockedClass, heap>>
    /\ (lastOp'.op = "getDefaultMock" /\ lastOp'.id \notin hist.gotDefault)
           => /\ lastOp'.v \notin DOMAIN heap
              /\ heap'[lastOp'.v]._verifiers = EmptyMap
              /\ _defaultMockedClass'[lastOp'.id] = lastOp'.v
    /\ (lastOp'.op = "getDefaultMock" /\ lastOp'.id \in hist.gotDefault)
           => /\ lastOp'.v = _defaultMockedClass[lastOp'.id]
              /\ UNCHANGED <<_mockedClass, _defaultMockedClass, heap>>

\* C10: getMock and getDefaultMock are get-or-create and idempotent, and
\* isMockRegistered tells exactly the pointers looked up since the last cleanUp.
C10_GetOrCreate == [](C10_Registered) /\ [][C10_Step]_vars

C10_Witness ==
    /\ lastOp.op = "getMock" /\ lastOp.ret
    /\ HasEntry(lastOp.v, "bar")
    /\ Entry(lastOp.v, "bar")._called > 0
    /\ Entry(lastOp.v, "bar")._handler # EmptyHandler

\* C11: every registry operation terminates: with user handlers that
\* terminate, invokeDupedMethod(m, arg) returns after finitely many handler
\* invocations in every reachable state, also after dupeMethod(m, h, compose =
\* true) on a method that had a stub; the process never dies in a call.
C11_EveryOperationReturns ==
    /\ ~crashed
    /\ lastOp.op \in LedgerOps => ~lastOp.overflow

\* C12: whenever verify(m, times) returns false, for any times including -1
\* and with or without a ledger entry, it emits exactly one diagnostic naming
\* the key, the expected count and the actual count (or that the method was
\* never called); whenever it returns true it emits none.
C12_VerifyReportsEveryFailure ==
    lastOp.op = "verify"
        => LET lines == lastOp.cout \o lastOp.cerr
           IN  IF lastOp.ret
               THEN lines = <<>>
               ELSE /\ Len(lines) = 1
                    /\ lines[1].key = Key(heap[lastOp.v], lastOp.m)
                    /\ lines[1].expected = lastOp.times
                    /\ IF HasEntry(lastOp.v, lastOp.m)
                       THEN /\ lines[1].kind = "count"
                            /\ lines[1].actual = Entry(lastOp.v, lastOp.m)._called
                       ELSE lines[1].kind = "never"

\* C13: in every reachable state, for every ledger entry of every verifier,
\* callCount equals the number of recorded payloads.
C13_CountIsPayloadCount ==
    \A v \in DOMAIN heap : \A key \in DOMAIN heap[v]._verifiers :
        heap[v]._verifiers[key]._called = Len(heap[v]._verifiers[key]._calledData)

C13_Witness ==
    /\ lastOp.op = "dupeMethod" /\ lastOp.pre > 0
    /\ \E m \in Methods : HasEntry(lastOp.v, m) /\ Entry(lastOp.v, m)._called > 0

\* C14: cleanUp() invalidates all outstanding data even for a caller that
\* holds a verifier handle obtained before it: through the retained handle
\* verify no longer reports the calls recorded before the cleanUp and
\* invokeDupedMethod no longer runs the stubs installed before it.
C14_CleanUpInvalidatesHeld ==
    lastOp.op = "cleanUp"
        => \A v \in held : \A m \in Methods :
               /\ verify(heap[v], m, 0).ret
               /\ \A a \in Args : invokeDupedMethod(heap[v], m, a) = NoRun

\* C14 as amended: cleanUp() only takes the verifiers out of the registry; a
\* verifier the caller holds a shared_ptr copy of stays alive with all its
\* recorded calls and stubs, and is no longer registered.
C14_CleanUpKeepsHeld ==
    [][lastOp'.op = "cleanUp"
         => \A v \in held :
                /\ v \in DOMAIN heap'
                /\ heap'[v] = heap[v]
                /\ v \notin Registered(_mockedClass', _defaultMockedClass')
                /\ \A m \in Methods, t \in Times :
                       verify(heap'[v], m, t).ret = verify(heap[v], m, t).ret]_vars

C14_Witness ==
    /\ lastOp.op = "cleanUp"
    /\ \E v \in held :
           /\ HasEntry(v, "bar")
           /\ Entry(v, "bar")._called > 0
           /\ Entry(v, "bar")._handler # EmptyHandler
           /\ ~verify(heap[v], "bar", 0).ret

\* C15: the diagnostic that verify emits on a mismatch is written to the
\* standard error stream, and no registry operation writes to standard output.
C15_DiagnosticOnStderr ==
    /\ lastOp.cout = <<>>
    /\ (lastOp.op = "verify" /\ ~lastOp.ret /\ HasEntry(lastOp.v, lastOp.m))
           => Len(lastOp.cerr) = 1

\* C15 as amended: the diagnostic that verify emits on a mismatch is written
\* to the standard output stream (std::cout); no registry operation writes to
\* standard error, and no operation but a failing verify writes to standard
\* output.
C15_DiagnosticOnStdout ==
    /\ lastOp.cerr = <<>>
    /\ (lastOp.op = "verify" /\ ~lastOp.ret /\ (HasEntry(lastOp.v, lastOp.m) \/ lastOp.times > 0))
           => Len(lastOp.cout) = 1
    /\ (lastOp.op # "verify" \/ lastOp.ret) => lastOp.cout = <<>>

C15_Witness ==
    /\ lastOp.op = "verify" /\ ~lastOp.ret
    /\ Len(lastOp.cout) = 1 /\ lastOp.cout[1].kind = "count"
    /\ lastOp.cerr = <<>>

\* The parts of C16: no verifier is both an instance mock and a default mock;
\* a first lookup never returns a verifier of the other mapping; a ledger
\* operation on a verifier of one mapping changes no verifier of the other.
C16_Disjoint == Range(_mockedClass) \cap Range(_defaultMockedClass) = {}

C16_Step ==
    /\ lastOp'.op \in {"methodCall", "dupeMethod", "invokeDupedMethod"}
           => \A c \in DOMAIN _defaultMockedClass, p \in DOMAIN _mockedClass :
                  /\ lastOp'.v = _defaultMockedClass[c]
                         => heap'[_mockedClass'[p]] = heap[_mockedClass[p]]
                  /\ lastOp'.v = _mockedClass[p]
                         => heap'[_defaultMockedClass'[c]] = heap[_defaultMockedClass[c]]
    /\ (lastOp'.op = "getMock" /\ ~isMockRegistered(_mockedClass, lastOp'.id))
           => /\ lastOp'.v \notin Range(_defaultMockedClass)
              /\ \A m \in Methods, a \in Args :
                     /\ verify(heap'[lastOp'.v], m, 0).ret
                     /\ invokeDupedMethod(heap'[lastOp'.v], m, a) = NoRun
    /\ (lastOp'.op = "getDefaultMock" /\ lastOp'.id \notin DOMAIN _defaultMockedClass)
           => /\ lastOp'.v \notin Range(_mockedClass)
              /\ \A m \in Methods, a \in Args :
                     /\ verify(heap'[lastOp'.v], m, 0).ret
                     /\ invokeDupedMethod(heap'[lastOp'.v], m, a) = NoRun

\* C16: the instance-keyed and the class-keyed (default) mappings are
\* isolated, without fallback: what is recorded or stubbed on getDefaultMock(C)
\* is never visible through getMock(p), and operations on getMock(p) never
\* change what is observed through getDefaultMock(C).
C16_MappingsIsolated == [](C16_Disjoint) /\ [][C16_Step]_vars

\* getMock(p) made a new, empty verifier while the default mock of the class
\* has a recorded call and a stub.
C16_Witness ==
    /\ lastOp.op = "getMock" /\ ~lastOp.ret
    /\ heap[lastOp.v]._verifiers = EmptyMap
    /\ \E c \in DOMAIN _defaultMockedClass :
           /\ heap[_defaultMockedClass[c]]._className = heap[lastOp.v]._className
           /\ HasEntry(_defaultMockedClass[c], "bar")
           /\ Entry(_defaultMockedClass[c], "bar")._called > 0
           /\ Entry(_defaultMockedClass[c], "bar")._handler # EmptyHandler

\* The ledger entry of method m in a MockClassVerifier value.
HasEntryIn(cv, m) == Key(cv, m) \in DOMAIN cv._verifiers

EntryIn(cv, m) == cv._verifiers[Key(cv, m)]

\* C17: methodCall never disturbs an installed stub: after methodCall(m, ..)
\* invokeDupedMethod(m, arg) runs exactly the same stub as before, plain or
\* composed, and a methodCall(m, ..) before any dupeMethod creates an entry
\* without a stub.
C17_MethodCallKeepsStub ==
    [][lastOp'.op = "methodCall"
         => LET old == heap[lastOp'.v]
                new == heap'[lastOp'.v]
                m   == lastOp'.m
            IN  /\ HasEntryIn(new, m)
                /\ EntryIn(new, m)._handler
                       = IF HasEntryIn(old, m) THEN EntryIn(old, m)._handler
                                               ELSE EmptyHandler
                /\ \A a \in Args :
                       invokeDupedMethod(new, m, a) = invokeDupedMethod(old, m, a)
                /\ Installed(lastOp'.v, m) = <<>>
                       => EntryIn(new, m)._handler = EmptyHandler]_vars

C17_Witness ==
    /\ lastOp.op = "methodCall" /\ lastOp.hadStub
    /\ Entry(lastOp.v, lastOp.m)._handler.kind = "composed"
    /\ \E m \in Methods : HasEntry(lastOp.v, m) /\ Entry(lastOp.v, m)._handler = EmptyHandler

\* C18: within one verifier, methodCall(m, ..) and dupeMethod(m, ..) change
\* only the ledger entry of m: for every other method name m2, also a prefix
\* or an extension of m, the existence, call count, payload list and stub of
\* the entry of m2 are unchanged.
C18_OtherEntriesUnchanged ==
    [][lastOp'.op \in {"methodCall", "dupeMethod"}
         => LET old == heap[lastOp'.v]
                new == heap'[lastOp'.v]
            IN  /\ \A m2 \in Methods \ {lastOp'.m} :
                       /\ HasEntryIn(new, m2) = HasEntryIn(old, m2)
                       /\ HasEntryIn(old, m2) => EntryIn(new, m2) = EntryIn(old, m2)
                       /\ Key(new, m2) # Key(new, lastOp'.m)
                /\ DOMAIN new._verifiers
                       = (DOMAIN old._verifiers) \cup {old._className \o lastOp'.m}
                /\ \A k \in DOMAIN old._verifiers :
                       k # old._className \o lastOp'.m
                           => new._verifiers[k] = old._verifiers[k]]_vars

\* dupeMethod("bar", ..) was called while "barz" has a recorded call and a stub.
C18_Witness ==
    /\ lastOp.op = "dupeMethod" /\ lastOp.m = "bar" /\ lastOp.pre > 0
    /\ HasEntry(lastOp.v, "barz")
    /\ Entry(lastOp.v, "barz")._called > 0
    /\ Entry(lastOp.v, "barz")._handler # EmptyHandler

\* C19: verify is a pure query: verify(m, times) leaves the whole registry
\* unchanged (no ledger entry created, no call count, payload list or stub
\* changed), so the same verify repeated at once returns the same result.
C19_VerifyIsPure ==
    [][lastOp'.op = "verify"
         => /\ UNCHANGED <<inst, _mockedClass, _defaultMockedClass, heap, held, crashed>>
            /\ DOMAIN heap'[lastOp'.v]._verifiers = DOMAIN heap[lastOp'.v]._verifiers
            /\ verify(heap'[lastOp'.v], lastOp'.m, lastOp'.times).ret = lastOp'.ret]_vars

\* verify("bar", -1) returned false on a verifier that has no entry for "bar"
\* and has one with a call and a stub for "barz".
C19_Witness ==
    /\ lastOp.op = "verify" /\ lastOp.m = "bar" /\ lastOp.times = -1 /\ ~lastOp.ret
    /\ ~HasEntry(lastOp.v, "bar")
    /\ HasEntry(lastOp.v, "barz")
    /\ Entry(lastOp.v, "barz")._called > 0
    /\ Entry(lastOp.v, "barz")._handler # EmptyHandler

\* C20: if the stub of m, while invokeDupedMethod(m, arg) runs it, calls
\* dupeMethod(m, h2, compose = false) on the same verifier, then that
\* invocation runs the stub exactly once and does not run h2, and the next
\* invokeDupedMethod(m, ..) runs h2 only.
C20_RestubWhileRunning ==
    [][(/\ lastOp'.op = "invokeDupedMethod"
        /\ lastOp'.m = RestubMethod
        /\ HasEntryIn(heap[lastOp'.v], RestubMethod)
        /\ EntryIn(heap[lastOp'.v], RestubMethod)._handler = UserHandler(RestubHandler))
         => /\ ~lastOp'.overflow
            /\ ~crashed'
            /\ lastOp'.trace = << <<RestubHandler, lastOp'.arg>> >>
            /\ EntryIn(heap'[lastOp'.v], RestubMethod)._handler = UserHandler(RestubWith)
            /\ \A a \in Args :
                   invokeDupedMethod(heap'[lastOp'.v], RestubMethod, a)
                       = [trace |-> << <<RestubWith, a>> >>, overflow |-> FALSE]]_vars

C20_Witness ==
    /\ lastOp.op = "invokeDupedMethod" /\ lastOp.m = RestubMethod
    /\ lastOp.trace = << <<RestubHandler, lastOp.arg>> >>
    /\ ~crashed
    /\ Entry(lastOp.v, RestubMethod)._handler = UserHandler(RestubWith)

====
